---- MODULE Spec2Model ----
(***************************************************************************)
(* Model of src/conf_mode/vrf.py: the VRF configuration script.            *)
(*                                                                         *)
(*   get_config()  reads the configuration store and the interface tree    *)
(*   verify()      rejects removals with members and table-id changes      *)
(*   generate()    does nothing                                            *)
(*   apply()       sysctl x2, device removal loop, device creation loop    *)
(*   __main__      runs the four in order; ConfigError -> print, exit(1)   *)
(*                                                                         *)
(* The configuration store (vyos.config.Config), the kernel (devices,      *)
(* policy rules, sysctl, ifalias) and command failure are the environment. *)
(***************************************************************************)
EXTENDS Integers, Sequences, FiniteSets, TLC

\* ------------------------------------------------------------- bounds
\* Number of invocations of the script in one behaviour.
MaxCycles == 2
\* Number of invocations in a behaviour that only ever declares RED.
MaxRedCycles == 3

\* The VRF names the store may hold, in the order list_nodes returns them.
NameOrder == <<"BLUE", "RED">>
VrfNames == {NameOrder[i] : i \in DOMAIN NameOrder}
\* The table ids a 'table' node may hold.
TableIds == {"100", "200"}
\* The texts a 'description' node may hold.
Descriptions == {"uplink"}
\* The interfaces of the interface tree, in the order the scan meets them.
IfaceOrder == <<"eth0">>
Ifaces == {IfaceOrder[i] : i \in DOMAIN IfaceOrder}

\* Python's None: a node that is absent, a value that was never set.
NoValue == "<None>"
\* The one-character string '\0' (line 82).
NUL == "\\0"
\* No exit status yet: the process is running or was never started.
Running == -1

VARIABLES
    active,      \* store: the proposed (desired) configuration
    effective,   \* store: the previously committed VRFs, name -> table
    ifaces,      \* interface tree: interface -> its 'vrf' attribute
    netdev,      \* kernel: name -> VRF device state
    iprules,     \* kernel: the routing-policy rules
    sysctl,      \* kernel: the two l3mdev_accept tunables
    pc,          \* position of the process in __main__ / apply
    vrf_config,  \* the dictionary get_config returned (c in __main__)
    idx,         \* index of the running for-loop of apply
    log,         \* the operations apply issued in this invocation, in order
    message,     \* the text print(e) wrote
    exit_code,   \* the exit status of the last invocation
    cycle,       \* invocations so far
    prev,        \* how the previous invocation ended, and whether this
                 \* invocation's dictionary equals the previous one
    kernel0      \* the kernel state this invocation started from

vars == <<active, effective, ifaces, netdev, iprules, sysctl, pc, vrf_config,
          idx, log, message, exit_code, cycle, prev, kernel0>>

kernel == <<netdev, iprules, sysctl>>

\* ------------------------------------------------ the configuration store
AbsentNode == [present |-> FALSE, table |-> NoValue, description |-> NoValue]

VrfNodes ==
    {AbsentNode} \cup
    [present : {TRUE}, table : TableIds \cup {NoValue},
     description : Descriptions \cup {NoValue}]

\* The subtrees a name may hold.  RED ranges over every table and description;
\* BLUE is a plain VRF (table 100, no description) that comes and goes.
PlainNode == [present |-> TRUE, table |-> "100", description |-> NoValue]
VrfNodesOf(n) == IF n = "RED" THEN VrfNodes ELSE {AbsentNode, PlainNode}

\* A configuration tree: the 'vrf' node, the 'bind-to-all' node the script
\* looks up, and the 'vrf name <NAME>' subtrees.  A name node implies 'vrf'.
ConfigTrees ==
    {t \in [vrf : BOOLEAN, bind : BOOLEAN, name : [VrfNames -> VrfNodes]] :
        /\ (\E n \in VrfNames : t.name[n].present) => t.vrf
        /\ \A n \in VrfNames : t.name[n] \in VrfNodesOf(n)}

\* The VRFs an interface's 'vrf' attribute may name.
IfaceVrfs == {"BLUE"}
InterfaceTrees == [Ifaces -> IfaceVrfs \cup {NoValue}]

EmptyTree == [vrf |-> FALSE, bind |-> FALSE, name |-> [n \in VrfNames |-> AbsentNode]]

\* What the store records as committed for a VRF: present or not, and its table.
EffectiveOf(tree) ==
    [n \in VrfNames |-> [present |-> tree.name[n].present, table |-> tree.name[n].table]]

\* conf.exists(['vrf']), conf.exists(['bind-to-all'])
exists_vrf(tree) == tree.vrf
exists_bind_to_all(tree) == tree.bind
\* conf.list_nodes(['vrf', 'name'])
list_nodes(tree) == SelectSeq(NameOrder, LAMBDA n : tree.name[n].present)
\* conf.list_effective_nodes(['vrf', 'name'])
list_effective_nodes(eff) == SelectSeq(NameOrder, LAMBDA n : eff[n].present)
\* conf.exists(['table']), conf.return_value(['table']) at level vrf name <n>
exists_table(tree, n) == tree.name[n].table # NoValue
return_value_table(tree, n) == tree.name[n].table
\* conf.return_effective_value(['table'])
return_effective_value_table(eff, n) == eff[n].table
exists_description(tree, n) == tree.name[n].description # NoValue
return_value_description(tree, n) == tree.name[n].description

\* vyos.configdict.list_diff(first, second): the items of first not in second.
list_diff(first, second) ==
    SelectSeq(first, LAMBDA x : \A j \in DOMAIN second : second[j] # x)

\* Python truthiness of a string-or-None value.
Truthy(v) == v # NoValue /\ v # ""

\* ------------------------------------------------------------ get_config
interfaces_with_vrf(match, ifc) ==
    SelectSeq(IfaceOrder, LAMBDA i : ifc[i] # NoValue /\ ifc[i] = match)

\* Lines 90-97: the table and the table_mod flag of one declared VRF.
table_of(tree, n) ==
    IF exists_table(tree, n) THEN return_value_table(tree, n) ELSE ""

table_mod_of(tree, eff, n) ==
    IF exists_table(tree, n)
    THEN LET act_table == return_value_table(tree, n)
             eff_table == return_effective_value_table(eff, n)
         IN  Truthy(eff_table) /\ eff_table # act_table
    ELSE FALSE

\* A variant of vrf_inst_add whose description defaults to the empty text.
vrf_inst_add_empty_default(tree, eff, ifc, n) ==
    [description |-> IF exists_description(tree, n)
                     THEN return_value_description(tree, n) ELSE "",
     members     |-> interfaces_with_vrf(n, ifc),
     name        |-> n,
     table       |-> table_of(tree, n),
     table_mod   |-> table_mod_of(tree, eff, n)]

\* Lines 81-106: the dictionary of one declared VRF.
vrf_inst_add(tree, eff, ifc, n) ==
    [description |-> IF exists_description(tree, n)
                     THEN return_value_description(tree, n) ELSE NUL,
     members     |-> interfaces_with_vrf(n, ifc),
     name        |-> n,
     table       |-> table_of(tree, n),
     table_mod   |-> table_mod_of(tree, eff, n)]

\* Lines 112-121: the dictionary of one VRF to remove.
vrf_inst_remove(ifc, n) ==
    [members |-> interfaces_with_vrf(n, ifc), name |-> n]

default_config_data ==
    [bind_to_all |-> 0, deleted |-> FALSE, vrf_add |-> <<>>,
     vrf_existing |-> <<>>, vrf_remove |-> <<>>]

\* A variant of remove_names that marks every effective VRF for removal.
remove_names_all(tree, eff) == list_effective_nodes(eff)

\* Lines 62-76: the names to remove, before they become dictionaries.
remove_names(tree, eff) ==
    IF ~exists_vrf(tree)
    THEN list_effective_nodes(eff)
    ELSE list_diff(list_effective_nodes(eff), list_nodes(tree))

get_config(tree, eff, ifc) ==
    [default_config_data EXCEPT
        !.bind_to_all = IF exists_vrf(tree) /\ exists_bind_to_all(tree) THEN 1 ELSE 0,
        !.vrf_add     = IF exists_vrf(tree)
                        THEN [i \in DOMAIN list_nodes(tree) |->
                                 vrf_inst_add(tree, eff, ifc, list_nodes(tree)[i])]
                        ELSE <<>>,
        !.vrf_remove  = [i \in DOMAIN remove_names(tree, eff) |->
                            vrf_inst_remove(ifc, remove_names(tree, eff)[i])]]

\* ---------------------------------------------------------------- verify
\* The first entry a for-loop raises on: the least index whose flag is set, or 0.
FirstTrue(flags) ==
    IF \E i \in DOMAIN flags : flags[i]
    THEN CHOOSE i \in DOMAIN flags : flags[i] /\ \A j \in 1..(i - 1) : ~flags[j]
    ELSE 0
HasMembers(c) == [i \in DOMAIN c.vrf_remove |-> Len(c.vrf_remove[i].members) > 0]
HasTableMod(c) == [i \in DOMAIN c.vrf_add |-> c.vrf_add[i].table_mod]

InUseMessage(name) ==
    "VRF \"" \o name \o "\" can not be deleted as it has active members"
TableModMessage == "VRF routing table id modification is not possible"

\* Variants of verify: without the loop of lines 130-132, and without the
\* loop of lines 135-137.
verify_without_members(c) ==
    IF FirstTrue(HasTableMod(c)) # 0 THEN TableModMessage
    ELSE NoValue
verify_without_table_mod(c) ==
    LET r == FirstTrue(HasMembers(c))
    IN  IF r # 0 THEN InUseMessage(c.vrf_remove[r].name) ELSE NoValue

\* verify(vrf_config): the ConfigError it raises, or NoValue when it returns.
verify(c) ==
    LET r == FirstTrue(HasMembers(c))
        a == FirstTrue(HasTableMod(c))
    IN  IF r # 0 THEN InUseMessage(c.vrf_remove[r].name)
        ELSE IF a # 0 THEN TableModMessage
        ELSE NoValue

\* ------------------------------------------------- formatting, commands
\* str() of a Python list of strings, as an f-string renders it.
RECURSIVE py_join(_)
py_join(s) ==
    IF Len(s) = 0 THEN ""
    ELSE IF Len(s) = 1 THEN "'" \o s[1] \o "'"
    ELSE "'" \o s[1] \o "', " \o py_join(Tail(s))
py_str_list(s) == "[" \o py_join(s) \o "]"
\* str() of a vrf_remove entry: the dictionary of lines 112-115.
py_str_remove(v) ==
    "{'members': " \o py_str_list(v.members) \o ", 'name': '" \o v.name \o "'}"

SysClassNet == "/sys/class/net/"
\* os.path.isdir(path) for a path under /sys/class/net.
isdir(path) == \E n \in VrfNames : netdev[n].exists /\ path = SysClassNet \o n

SysctlTcpCmd(v) == "sysctl -wq net.ipv4.tcp_l3mdev_accept=" \o ToString(v)
SysctlUdpCmd(v) == "sysctl -wq net.ipv4.udp_l3mdev_accept=" \o ToString(v)
LinkDeleteCmd(dev) == "ip link delete dev " \o dev
LinkAddCmd(name, table) == "ip link add " \o name \o " type vrf table " \o table
LinkUpCmd(name) == "ip link set dev " \o name \o " up"
RuleCmd(family, dir, name, table) ==
    "ip " \o family \o " rule add " \o dir \o " " \o name \o " lookup " \o table
IfaliasPath(name) == SysClassNet \o name \o "/ifalias"

\* _cmd raises ConfigError(f'Error operationg on VRF: {e}') (line 42).
CmdErrorMessage(command) == "Error operationg on VRF: " \o command

\* f.write(description) on /sys/class/net/<name>/ifalias (lines 171-172): the
\* kernel keeps the alias as a C string, so the text ends at the first NUL; a
\* write of no bytes at all never reaches the attribute and leaves it as it was.
ifalias_store(old, data) ==
    IF data = "" THEN old
    ELSE IF data = NUL THEN ""
    ELSE data

NoDevice == [exists |-> FALSE, table |-> "", up |-> FALSE, alias |-> ""]
Rule(family, dir, name, table) ==
    [family |-> family, dir |-> dir, ifname |-> name, table |-> table]

\* ---------------------------------------------------------------- state
Init ==
    /\ active = EmptyTree
    /\ effective = EffectiveOf(EmptyTree)
    /\ ifaces = [i \in Ifaces |-> NoValue]
    /\ netdev = [n \in VrfNames |-> NoDevice]
    /\ iprules = {}
    /\ sysctl = [tcp |-> 0, udp |-> 0]
    /\ pc = "idle"
    /\ vrf_config = default_config_data
    /\ idx = 0
    /\ log = <<>>
    /\ message = NoValue
    /\ exit_code = Running
    /\ cycle = 0
    /\ prev = [result |-> Running, last |-> NoValue, same |-> FALSE]
    /\ kernel0 = [netdev |-> [n \in VrfNames |-> NoDevice], iprules |-> {},
                  sysctl |-> [tcp |-> 0, udp |-> 0]]

LastIssued == IF Len(log) = 0 THEN NoValue ELSE log[Len(log)].arg

\* __main__ line 178: the script starts on a proposed configuration and reads it.
Invocation(trees, ifcs, bound) ==
    /\ pc = "idle"
    /\ cycle < bound
    /\ \E t \in trees, ifc \in ifcs :
        /\ active' = t
        /\ ifaces' = ifc
        /\ vrf_config' = get_config(t, effective, ifc)
        /\ prev' = [result |-> exit_code, last |-> LastIssued,
                    same |-> cycle > 0 /\ get_config(t, effective, ifc) = vrf_config]
    /\ pc' = "verify"
    /\ idx' = 0
    /\ log' = <<>>
    /\ message' = NoValue
    /\ exit_code' = Running
    /\ cycle' = cycle + 1
    /\ kernel0' = [netdev |-> netdev, iprules |-> iprules, sysctl |-> sysctl]
    /\ UNCHANGED <<effective, netdev, iprules, sysctl>>

\* One invocation, on any configuration of the domain.
Invoke == Invocation(ConfigTrees, InterfaceTrees, MaxCycles)

\* One invocation in a history that only ever declares RED (no other VRF, no
\* description, no bind-to-all, no interface in a VRF) and in which the script
\* is invoked again only after it ended with status 0.
RedTrees ==
    {t \in ConfigTrees :
        /\ ~t.bind
        /\ ~t.name["BLUE"].present
        /\ t.name["RED"].description = NoValue}
InvokeRed ==
    /\ exit_code # 1
    /\ Invocation(RedTrees, {[i \in Ifaces |-> NoValue]}, MaxRedCycles)

\* The two for-loops of apply: the position at entry i of a loop, or past it.
AddLoop(c, j) ==
    IF j <= Len(c.vrf_add) THEN [pc |-> "add", idx |-> j]
    ELSE [pc |-> "done", idx |-> 0]
RemoveLoop(c, i) ==
    IF i <= Len(c.vrf_remove) THEN [pc |-> "remove", idx |-> i]
    ELSE AddLoop(c, 1)

\* A variant of apply_next with the two loops in the other order.
apply_next_add_first(c, at, i) ==
    LET removals(k) == IF k <= Len(c.vrf_remove) THEN [pc |-> "remove", idx |-> k]
                       ELSE [pc |-> "done", idx |-> 0]
        additions(k) == IF k <= Len(c.vrf_add) THEN [pc |-> "add", idx |-> k]
                        ELSE removals(1)
    IN  CASE at = "sysctl_tcp" -> [pc |-> "sysctl_udp", idx |-> 0]
          [] at = "sysctl_udp" -> additions(1)
          [] at = "remove"     -> removals(i + 1)
          [] at = "ifalias"    -> additions(i + 1)

\* The order of apply (lines 150-174): where it goes on after the step at
\* `at`, of loop index i, has returned.
apply_next(c, at, i) ==
    CASE at = "sysctl_tcp" -> [pc |-> "sysctl_udp", idx |-> 0]
      [] at = "sysctl_udp" -> RemoveLoop(c, 1)
      [] at = "remove"     -> RemoveLoop(c, i + 1)
      [] at = "ifalias"    -> AddLoop(c, i + 1)

Goto(at) == pc' = at.pc /\ idx' = at.idx

\* A ConfigError leaves the try block of __main__.
Raise(text) ==
    /\ pc' = "except"
    /\ message' = text
    /\ UNCHANGED idx

\* A variant of Verify that drops the candidates it rejects from vrf_remove.
Verify_pruning ==
    /\ pc = "verify"
    /\ IF verify(vrf_config) # NoValue
       THEN /\ Raise(verify(vrf_config))
            /\ vrf_config' = [vrf_config EXCEPT !.vrf_remove =
                                 SelectSeq(@, LAMBDA v : Len(v.members) = 0)]
       ELSE pc' = "sysctl_tcp" /\ UNCHANGED <<idx, message, vrf_config>>
    /\ UNCHANGED <<active, effective, ifaces, netdev, iprules, sysctl,
                   log, exit_code, cycle, prev, kernel0>>

\* __main__ lines 179-180: verify, then generate (which does nothing).
Verify ==
    /\ pc = "verify"
    /\ IF verify(vrf_config) # NoValue
       THEN Raise(verify(vrf_config))
       ELSE pc' = "sysctl_tcp" /\ UNCHANGED <<idx, message>>
    /\ UNCHANGED <<active, effective, ifaces, netdev, iprules, sysctl,
                   vrf_config, log, exit_code, cycle, prev, kernel0>>

\* ----------------------------------------------------------------- apply
\* The log: every operation apply performs on the kernel surface, in order.
Cmd(command) == [op |-> "cmd", arg |-> command, data |-> ""]
Probe(path) == [op |-> "isdir", arg |-> path, data |-> ""]
Write(path, data) == [op |-> "write", arg |-> path, data |-> data]
Issue(entries) == log' = log \o entries

\* 'ip link add <name> type vrf table <table>' needs a table id and a free name.
CanCreate(name, table) == table # "" /\ ~netdev[name].exists

\* _cmd(command), lines 34-42: check_call either returns, or raises
\* CalledProcessError, which _cmd turns into ConfigError.

\* Lines 150-151.
SysctlTcp ==
    /\ pc = "sysctl_tcp"
    /\ Issue(<<Cmd(SysctlTcpCmd(vrf_config.bind_to_all))>>)
    /\ \/ /\ sysctl' = [sysctl EXCEPT !.tcp = vrf_config.bind_to_all]
          /\ Goto(apply_next(vrf_config, "sysctl_tcp", idx))
          /\ UNCHANGED message
       \/ /\ Raise(CmdErrorMessage(SysctlTcpCmd(vrf_config.bind_to_all)))
          /\ UNCHANGED sysctl
    /\ UNCHANGED <<active, effective, ifaces, netdev, iprules, vrf_config,
                   exit_code, cycle, prev, kernel0>>

\* Line 152.
SysctlUdp ==
    /\ pc = "sysctl_udp"
    /\ Issue(<<Cmd(SysctlUdpCmd(vrf_config.bind_to_all))>>)
    /\ \/ /\ sysctl' = [sysctl EXCEPT !.udp = vrf_config.bind_to_all]
          /\ Goto(apply_next(vrf_config, "sysctl_udp", idx))
          /\ UNCHANGED message
       \/ /\ Raise(CmdErrorMessage(SysctlUdpCmd(vrf_config.bind_to_all)))
          /\ UNCHANGED sysctl
    /\ UNCHANGED <<active, effective, ifaces, netdev, iprules, vrf_config,
                   exit_code, cycle, prev, kernel0>>

\* Lines 154-156: one pass of 'for vrf_name in vrf_config["vrf_remove"]'.
\* The loop variable is the entry itself; the f-strings format it as it is.
remove_target(entry) == py_str_remove(entry)

Remove ==
    /\ pc = "remove"
    /\ LET dev  == remove_target(vrf_config.vrf_remove[idx])
           path == SysClassNet \o dev
       IN  IF isdir(path)
           THEN /\ Issue(<<Probe(path), Cmd(LinkDeleteCmd(dev))>>)
                /\ \E ok \in BOOLEAN :
                      IF ok
                      THEN /\ netdev' = [n \in VrfNames |->
                                            IF n = dev THEN NoDevice ELSE netdev[n]]
                           /\ Goto(apply_next(vrf_config, "remove", idx))
                           /\ UNCHANGED message
                      ELSE /\ Raise(CmdErrorMessage(LinkDeleteCmd(dev)))
                           /\ UNCHANGED netdev
           ELSE /\ Issue(<<Probe(path)>>)
                /\ Goto(apply_next(vrf_config, "remove", idx))
                /\ UNCHANGED <<netdev, message>>
    /\ UNCHANGED <<active, effective, ifaces, iprules, sysctl, vrf_config,
                   exit_code, cycle, prev, kernel0>>

\* A variant of add_gate that creates the device whether or not it exists.
add_gate_always(name) == TRUE

\* Line 162: the existence gate of one declared VRF.
add_gate(name) == ~isdir(SysClassNet \o name)

Add ==
    /\ pc = "add"
    /\ Issue(<<Probe(SysClassNet \o vrf_config.vrf_add[idx].name)>>)
    /\ pc' = IF add_gate(vrf_config.vrf_add[idx].name) THEN "link_add" ELSE "ifalias"
    /\ UNCHANGED <<active, effective, ifaces, netdev, iprules, sysctl, vrf_config,
                   idx, message, exit_code, cycle, prev, kernel0>>

\* Line 163.
LinkAdd ==
    /\ pc = "link_add"
    /\ LET vrf == vrf_config.vrf_add[idx]
           command == LinkAddCmd(vrf.name, vrf.table)
       IN  /\ Issue(<<Cmd(command)>>)
           /\ \/ /\ CanCreate(vrf.name, vrf.table)
                 /\ netdev' = [netdev EXCEPT ![vrf.name] =
                                 [exists |-> TRUE, table |-> vrf.table,
                                  up |-> FALSE, alias |-> ""]]
                 /\ pc' = "link_up"
                 /\ UNCHANGED <<idx, message>>
              \/ /\ Raise(CmdErrorMessage(command))
                 /\ UNCHANGED netdev
    /\ UNCHANGED <<active, effective, ifaces, iprules, sysctl, vrf_config,
                   exit_code, cycle, prev, kernel0>>

\* Line 164.
LinkUp ==
    /\ pc = "link_up"
    /\ LET vrf == vrf_config.vrf_add[idx]
           command == LinkUpCmd(vrf.name)
       IN  /\ Issue(<<Cmd(command)>>)
           /\ \/ /\ netdev' = [netdev EXCEPT ![vrf.name].up = TRUE]
                 /\ pc' = "rule4_oif"
                 /\ UNCHANGED <<idx, message>>
              \/ /\ Raise(CmdErrorMessage(command))
                 /\ UNCHANGED netdev
    /\ UNCHANGED <<active, effective, ifaces, iprules, sysctl, vrf_config,
                   exit_code, cycle, prev, kernel0>>

\* A variant of RuleSteps that installs each iif rule before its oif rule.
RuleSteps_iif_first ==
    <<[at |-> "rule4_oif", family |-> "-4", dir |-> "iif", next |-> "rule4_iif"],
      [at |-> "rule4_iif", family |-> "-4", dir |-> "oif", next |-> "rule6_oif"],
      [at |-> "rule6_oif", family |-> "-6", dir |-> "iif", next |-> "rule6_iif"],
      [at |-> "rule6_iif", family |-> "-6", dir |-> "oif", next |-> "ifalias"]>>

\* Lines 165-168: the four rule installations, in the order of the source.
RuleSteps ==
    <<[at |-> "rule4_oif", family |-> "-4", dir |-> "oif", next |-> "rule4_iif"],
      [at |-> "rule4_iif", family |-> "-4", dir |-> "iif", next |-> "rule6_oif"],
      [at |-> "rule6_oif", family |-> "-6", dir |-> "oif", next |-> "rule6_iif"],
      [at |-> "rule6_iif", family |-> "-6", dir |-> "iif", next |-> "ifalias"]>>

RuleAdd ==
    /\ \E k \in DOMAIN RuleSteps :
        LET step == RuleSteps[k]
            vrf == vrf_config.vrf_add[idx]
            command == RuleCmd(step.family, step.dir, vrf.name, vrf.table)
        IN  /\ pc = step.at
            /\ Issue(<<Cmd(command)>>)
            /\ \/ /\ iprules' = iprules \cup
                                  {Rule(step.family, step.dir, vrf.name, vrf.table)}
                  /\ pc' = step.next
                  /\ UNCHANGED <<idx, message>>
               \/ /\ Raise(CmdErrorMessage(command))
                  /\ UNCHANGED iprules
    /\ UNCHANGED <<active, effective, ifaces, netdev, sysctl, vrf_config,
                   exit_code, cycle, prev, kernel0>>

\* Lines 171-172: open(.../ifalias, 'w') and write.  A missing device makes
\* open raise an OSError, which __main__ does not catch: a traceback, status 1.
Ifalias ==
    /\ pc = "ifalias"
    /\ LET vrf == vrf_config.vrf_add[idx]
       IN  IF isdir(SysClassNet \o vrf.name)
           THEN /\ Issue(<<Write(IfaliasPath(vrf.name), vrf.description)>>)
                /\ netdev' = [netdev EXCEPT ![vrf.name].alias =
                                 ifalias_store(@, vrf.description)]
                /\ Goto(apply_next(vrf_config, "ifalias", idx))
                /\ UNCHANGED message
           ELSE /\ pc' = "except"
                /\ message' = "FileNotFoundError: " \o IfaliasPath(vrf.name)
                /\ UNCHANGED <<idx, log, netdev>>
    /\ UNCHANGED <<active, effective, ifaces, iprules, sysctl, vrf_config,
                   exit_code, cycle, prev, kernel0>>

\* apply returned: the script ends with status 0 and the store commits the
\* proposed configuration, which becomes the effective one.
Done ==
    /\ pc = "done"
    /\ pc' = "idle"
    /\ exit_code' = 0
    /\ effective' = EffectiveOf(active)
    /\ UNCHANGED <<active, ifaces, netdev, iprules, sysctl, vrf_config, idx, log,
                   message, cycle, prev, kernel0>>

\* A variant of Except that prints the error and ends with status 0.
Except_status0 ==
    /\ pc = "except"
    /\ pc' = "idle"
    /\ exit_code' = 0
    /\ UNCHANGED <<active, effective, ifaces, netdev, iprules, sysctl, vrf_config,
                   idx, log, message, cycle, prev, kernel0>>

\* Lines 182-184: print(e) and exit(1); the store keeps its effective state.
Except ==
    /\ pc = "except"
    /\ pc' = "idle"
    /\ exit_code' = 1
    /\ UNCHANGED <<active, effective, ifaces, netdev, iprules, sysctl, vrf_config,
                   idx, log, message, cycle, prev, kernel0>>

Next ==
    \/ Invoke
    \/ Verify
    \/ SysctlTcp
    \/ SysctlUdp
    \/ Remove
    \/ Add
    \/ LinkAdd
    \/ LinkUp
    \/ RuleAdd
    \/ Ifalias
    \/ Done
    \/ Except

Spec == Init /\ [][Next]_vars

\* The script invoked up to MaxRedCycles times on configurations of RED alone,
\* each invocation after a successful one.
NextRed ==
    \/ InvokeRed
    \/ Verify
    \/ SysctlTcp
    \/ SysctlUdp
    \/ Remove
    \/ Add
    \/ LinkAdd
    \/ LinkUp
    \/ RuleAdd
    \/ Ifalias
    \/ Done
    \/ Except

SpecRed == Init /\ [][NextRed]_vars

\* ================================================================ claims
KernelNow == [netdev |-> netdev, iprules |-> iprules, sysctl |-> sysctl]
Names(entries) == {entries[i].name : i \in DOMAIN entries}
LogArgs(op) == {log[i].arg : i \in {j \in DOMAIN log : log[j].op = op}}

\* The removal candidates that have members; the declared VRFs flagged table_mod.
BusyRemovals(c) ==
    {c.vrf_remove[i].name : i \in {j \in DOMAIN c.vrf_remove :
                                      Len(c.vrf_remove[j].members) > 0}}
TableMods(c) ==
    {c.vrf_add[i].name : i \in {j \in DOMAIN c.vrf_add : c.vrf_add[j].table_mod}}

\* The invocation ended in verify: apply never ran, nothing was issued, the
\* kernel is as the invocation found it, and the exit status is 1.
Rejected ==
    /\ pc \in {"except", "idle"}
    /\ log = <<>>
    /\ KernelNow = kernel0
    /\ pc = "idle" => exit_code = 1

\* C1: whenever a removal candidate has a member interface, verify fails with
\* the in-use error naming such a candidate, and apply issues nothing.
C1_BusyRemovalIsRejected ==
    (cycle > 0 /\ pc # "verify" /\ BusyRemovals(vrf_config) # {}) =>
        /\ Rejected
        /\ message \in {InUseMessage(n) : n \in BusyRemovals(vrf_config)}

C1_Witness ==
    /\ pc = "idle" /\ exit_code = 1
    /\ BusyRemovals(vrf_config) # {}
    /\ \E n \in BusyRemovals(vrf_config) : netdev[n].exists

\* C2 (as claimed): after apply returned, no VRF of vrf_remove has a device.
C2_RemovedDevicesAreGone ==
    pc = "done" => \A n \in Names(vrf_config.vrf_remove) : ~netdev[n].exists

\* C3 (as claimed): table_mod is set exactly for the declared VRFs whose
\* effective table id exists, is non-empty and differs from the declared one,
\* an unset declared table included.
C3_TableModIffTableDiffers ==
    pc = "verify" =>
        \A i \in DOMAIN vrf_config.vrf_add :
            LET v == vrf_config.vrf_add[i]
                eff_table == effective[v.name].table
                act_table == active.name[v.name].table
            IN  v.table_mod <=> (Truthy(eff_table) /\ eff_table # act_table)

\* C4: whenever a declared VRF is flagged table_mod, verify fails before
\* apply runs: no 'ip link add' and no other command is issued.
C4_TableModIsRejected ==
    (cycle > 0 /\ pc # "verify" /\ TableMods(vrf_config) # {}) =>
        /\ Rejected
        /\ message \in {TableModMessage} \cup
                       {InUseMessage(n) : n \in BusyRemovals(vrf_config)}

C4_Witness ==
    /\ pc = "idle" /\ exit_code = 1
    /\ TableMods(vrf_config) # {}
    /\ message = TableModMessage
    /\ \E n \in TableMods(vrf_config) :
          netdev[n].exists /\ netdev[n].table # active.name[n].table

\* The commands of lines 163-168 for one name.
Tables == TableIds \cup {""}
CreationCmds(n) ==
    {LinkAddCmd(n, t) : t \in Tables} \cup {LinkUpCmd(n)} \cup
    {RuleCmd(f, d, n, t) : f \in {"-4", "-6"}, d \in {"oif", "iif"}, t \in Tables}
\* The commands that follow the device's creation.
AfterCreationCmds(n) == CreationCmds(n) \ {LinkAddCmd(n, t) : t \in Tables}

FullyConfigured(v) ==
    /\ netdev[v.name].exists
    /\ netdev[v.name].up
    /\ \A f \in {"-4", "-6"}, d \in {"oif", "iif"} :
          Rule(f, d, v.name, v.table) \in iprules

\* The previous apply of this same dictionary failed after creating a
\* device and before installing its last rule.
PreviousRunFailedInCreation ==
    /\ prev.same /\ prev.result = 1
    /\ \E n \in Names(vrf_config.vrf_add) : prev.last \in AfterCreationCmds(n)

\* C5 (as claimed): after such a failure, an apply of the same dictionary that
\* returns leaves every declared VRF with a device that is up and has its
\* four rules.
C5_RerunCompletesCreation ==
    (pc = "done" /\ PreviousRunFailedInCreation) =>
        \A i \in DOMAIN vrf_config.vrf_add : FullyConfigured(vrf_config.vrf_add[i])

\* The phase of apply an operation of the log belongs to: 1 the tunables,
\* 2 the removal loop (probe, delete), 3 the creation loop.
SysctlCmds ==
    {SysctlTcpCmd(v) : v \in 0..1} \cup {SysctlUdpCmd(v) : v \in 0..1}
RemovalTargets(c) ==
    Names(c.vrf_remove) \cup {py_str_remove(c.vrf_remove[i]) : i \in DOMAIN c.vrf_remove}
Phase(c, e) ==
    IF e.op = "cmd" /\ e.arg \in SysctlCmds THEN 1
    ELSE IF \/ e.op = "cmd" /\ e.arg \in {LinkDeleteCmd(d) : d \in RemovalTargets(c)}
            \/ e.op = "isdir" /\ e.arg \in {SysClassNet \o d : d \in RemovalTargets(c)}
         THEN 2
    ELSE 3

\* C6: in one run of apply both tunable writes come before any operation of
\* the removal loop, and every operation of the removal loop comes before
\* any creation, link-up, rule installation or alias write.
C6_PolicyThenRemovalsThenAdditions ==
    LET phase == [i \in DOMAIN log |-> Phase(vrf_config, log[i])]
    IN  /\ \A i \in DOMAIN log : i > 1 => phase[i - 1] <= phase[i]
        /\ (\E i \in DOMAIN log : phase[i] > 1) =>
              /\ log[1] = Cmd(SysctlTcpCmd(vrf_config.bind_to_all))
              /\ log[2] = Cmd(SysctlUdpCmd(vrf_config.bind_to_all))

C6_Witness ==
    /\ pc = "done"
    /\ \E i \in DOMAIN log : Phase(vrf_config, log[i]) = 2
    /\ \E n \in Names(vrf_config.vrf_add), t \in TableIds :
          LinkAddCmd(n, t) \in LogArgs("cmd")

\* C7: when the previous invocation applied this same dictionary and
\* returned, every declared VRF has its device at the start, apply issues no
\* create, link-up or rule command for it, and writes its alias once.
AliasWrites(v) ==
    {i \in DOMAIN log : log[i] = Write(IfaliasPath(v.name), v.description)}
C7_SecondApplyOnlyWritesAliases ==
    (cycle > 0 /\ prev.same /\ prev.result = 0) =>
        \A i \in DOMAIN vrf_config.vrf_add :
            LET v == vrf_config.vrf_add[i]
            IN  /\ kernel0.netdev[v.name].exists
                /\ LogArgs("cmd") \cap CreationCmds(v.name) = {}
                /\ (pc = "done" \/ (pc = "idle" /\ exit_code = 0)) =>
                      Cardinality(AliasWrites(v)) = 1

C7_Witness ==
    /\ pc = "done"
    /\ prev.same /\ prev.result = 0
    /\ Len(vrf_config.vrf_add) = Cardinality(VrfNames)

\* C8: vrf_remove holds exactly the effective names that are not declared
\* (every effective name when the 'vrf' node is absent), vrf_add exactly
\* the declared names, each once, and the two share no name.
EffectiveNames == {n \in VrfNames : effective[n].present}
DeclaredNames == {n \in VrfNames : active.name[n].present}
C8_PlanPartition ==
    (cycle > 0 /\ pc # "idle") =>
        /\ Names(vrf_config.vrf_remove) =
              IF active.vrf THEN EffectiveNames \ DeclaredNames ELSE EffectiveNames
        /\ Names(vrf_config.vrf_add) = DeclaredNames
        /\ Len(vrf_config.vrf_remove) = Cardinality(Names(vrf_config.vrf_remove))
        /\ Len(vrf_config.vrf_add) = Cardinality(Names(vrf_config.vrf_add))
        /\ Names(vrf_config.vrf_add) \cap Names(vrf_config.vrf_remove) = {}

C8_Witness ==
    /\ pc = "verify"
    /\ Len(vrf_config.vrf_remove) > 0
    /\ Len(vrf_config.vrf_add) > 0

\* C9 (as claimed): when apply returned, both tunables hold 1 if the
\* configuration has bind-to-all and 0 if not, and the two writes came first.
C9_TunablesFollowBindToAll ==
    pc = "done" =>
        LET want == IF exists_bind_to_all(active) THEN 1 ELSE 0
        IN  /\ sysctl = [tcp |-> want, udp |-> want]
            /\ log[1] = Cmd(SysctlTcpCmd(want))
            /\ log[2] = Cmd(SysctlUdpCmd(want))

\* C10: the step on which a command fails changes nothing in the kernel and
\* raises the error of that command, the last one issued; the handler then
\* issues nothing, undoes nothing and ends the invocation with status 1.
C10_FirstFailureAborts ==
    [][/\ (pc \notin {"verify", "except"} /\ pc' = "except") =>
              /\ KernelNow' = KernelNow
              /\ message' = CmdErrorMessage(log'[Len(log')].arg)
       /\ pc = "except" =>
              /\ pc' = "idle" /\ exit_code' = 1
              /\ log' = log /\ message' = message
              /\ KernelNow' = KernelNow]_vars

C10_Witness ==
    /\ pc = "idle" /\ exit_code = 1
    /\ \E n \in Names(vrf_config.vrf_add) :
          /\ netdev[n].exists /\ ~kernel0.netdev[n].exists
          /\ message \in {CmdErrorMessage(x) : x \in AfterCreationCmds(n)}
    /\ idx < Len(vrf_config.vrf_add)

\* Whether text t occurs in text s.
Contains(s, t) ==
    \E i \in 1..(Len(s) - Len(t) + 1) : SubSeq(s, i, i + Len(t) - 1) = t

\* C11 (as claimed): the error verify raises for a removal candidate with
\* members names that candidate, and the error it raises for a table-id
\* change names a VRF whose table id was changed.
C11_ErrorNamesTheVrf ==
    (pc = "except" /\ log = <<>>) =>
        IF BusyRemovals(vrf_config) # {}
        THEN \E n \in BusyRemovals(vrf_config) : Contains(message, n)
        ELSE \E n \in TableMods(vrf_config) : Contains(message, n)

\* C12: verify changes nothing.  When it returns, and when it raises and
\* the invocation ends, the dictionary is the one get_config returned,
\* nothing was issued and the kernel (devices, rules, aliases, tunables) is
\* the one the invocation started from.
C12_VerifyIsPure ==
    (cycle > 0 /\ pc \in {"verify", "sysctl_tcp", "except", "idle"}) =>
        LET plan == get_config(active, effective, ifaces)
            untouched == vrf_config = plan /\ log = <<>> /\ KernelNow = kernel0
        IN  /\ verify(plan) # NoValue => untouched
            /\ pc = "sysctl_tcp" => untouched

C12_Witness ==
    /\ pc = "idle" /\ exit_code = 1
    /\ verify(vrf_config) # NoValue
    /\ iprules # {}
    /\ KernelNow = kernel0

\* The operations of the log that concern the device of one name.
OpsFor(n) ==
    LET args == [isdir |-> {SysClassNet \o n},
                 cmd   |-> CreationCmds(n),
                 write |-> {IfaliasPath(n)}]
    IN  SelectSeq(log, LAMBDA e : e.arg \in args[e.op])
IsPrefix(a, b) == Len(a) <= Len(b) /\ a = SubSeq(b, 1, Len(a))

\* What the claim expects apply to issue for a declared VRF.
CreationSequence(v) ==
    <<Cmd(LinkAddCmd(v.name, v.table)),
      Cmd(LinkUpCmd(v.name)),
      Cmd(RuleCmd("-4", "oif", v.name, v.table)),
      Cmd(RuleCmd("-4", "iif", v.name, v.table)),
      Cmd(RuleCmd("-6", "oif", v.name, v.table)),
      Cmd(RuleCmd("-6", "iif", v.name, v.table))>>
ExpectedOps(v) ==
    <<Probe(SysClassNet \o v.name)>>
    \o (IF kernel0.netdev[v.name].exists THEN <<>> ELSE CreationSequence(v))
    \o <<Write(IfaliasPath(v.name), v.description)>>

\* C13: for a declared VRF without a device apply issues, in this order and
\* once each, create with its table, link up, the IPv4 oif, IPv4 iif, IPv6
\* oif and IPv6 iif rules to that table, and the alias write; for one whose
\* device exists it issues only the alias write.  A run that ended in an
\* error has issued a prefix of that sequence.
C13_CreationSequence ==
    /\ pc = "done" =>
          \A i \in DOMAIN vrf_config.vrf_add :
              OpsFor(vrf_config.vrf_add[i].name) = ExpectedOps(vrf_config.vrf_add[i])
    /\ pc = "except" =>
          \A i \in DOMAIN vrf_config.vrf_add :
              IsPrefix(OpsFor(vrf_config.vrf_add[i].name),
                       ExpectedOps(vrf_config.vrf_add[i]))

C13_Witness ==
    /\ pc = "done"
    /\ \E n \in Names(vrf_config.vrf_add) :
          ~kernel0.netdev[n].exists /\ netdev[n].exists
    /\ \E n \in Names(vrf_config.vrf_add) : kernel0.netdev[n].exists

\* The description declared for a VRF, empty when none is configured.
DeclaredDescription(n) ==
    IF exists_description(active, n) THEN return_value_description(active, n)
    ELSE ""
AliasWritesTo(n) ==
    {i \in DOMAIN log : log[i].op = "write" /\ log[i].arg = IfaliasPath(n)}

AllCyclesSucceeded == pc = "idle" /\ cycle > 0 /\ exit_code = 0

\* C15 (as claimed): after any sequence of invocations that all ended with
\* status 0, the device of every VRF that is declared with a table is bound
\* to that table; a name removed and later declared again with another table
\* has a device on the new table.
C15_DeviceTableIsDeclaredTable ==
    AllCyclesSucceeded =>
        \A n \in DeclaredNames :
            (exists_table(active, n) /\ netdev[n].exists) =>
                netdev[n].table = return_value_table(active, n)

\* The creation and rule commands for one name with an empty table id.
EmptyTableCmds(n) ==
    {LinkAddCmd(n, "")} \cup
    {RuleCmd(f, d, n, "") : f \in {"-4", "-6"}, d \in {"oif", "iif"}}

\* C16 (as claimed): no 'ip link add <name> type vrf table <table>' and no
\* rule installation is ever issued with an empty table id.
C16_CreationCarriesTable ==
    \A n \in VrfNames : LogArgs("cmd") \cap EmptyTableCmds(n) = {}

====
